---- MODULE Spec2Model ----
(***************************************************************************)
(* Model of Password_Generator.py: build_pools, generate_password and      *)
(* secure_shuffle.  A string is a sequence of one-character strings.  One  *)
(* behaviour is one call of generate_password; every consultation of the   *)
(* random source (secrets.choice, secrets.randbelow) is one step.          *)
(***************************************************************************)
EXTENDS Integers, Sequences, FiniteSets, TLC

VARIABLES
    pc,                \* position inside generate_password
    length,            \* argument length
    use_digits,        \* argument use_digits
    use_letters,       \* argument use_letters
    use_special,       \* argument use_special
    specials,          \* argument specials
    exclude_ambiguous, \* argument exclude_ambiguous
    pools,             \* local pools (list of strings)
    combined,          \* local combined (string)
    pwd_chars,         \* local pwd_chars (list of characters)
    todo,              \* iterations left of range(length - len(pwd_chars))
    i,                 \* loop variable i of secure_shuffle
    err,               \* message of the ValueError raised ("" when none)
    result,            \* returned string (<<>> until the return)
    nDraws,            \* history: consultations of the random source so far
    js,                \* history: the swap indices j drawn by secure_shuffle
    perm               \* history: original position of the item at each index

vars == <<pc, length, use_digits, use_letters, use_special, specials,
          exclude_ambiguous, pools, combined, pwd_chars, todo, i, err,
          result, nDraws, js, perm>>

cfgvars == <<length, use_digits, use_letters, use_special, specials,
             exclude_ambiguous>>

-----------------------------------------------------------------------------
\* Bounds of the model: the largest length, the number of non-positive
\* lengths below zero, and the largest length for which the draw sequences of
\* a configuration are counted.
MaxLen == 4
MaxNeg == 1
DistMaxLen == 3

\* Constants of the program.  The three alphabets are samples of the real
\* ones that keep at least one ambiguous and one unambiguous character each.
AMBIGUOUS == {"I", "l", "1", "O", "0", "o"}
string_digits == <<"0", "7">>
string_ascii_letters == <<"a", "O">>
DEFAULT_SPECIALS == <<"!", "@">>
Whitespace == {" ", "\t", "\n", "\r"}

\* Values of the argument specials: the default, the empty string, a string of
\* whitespace only, a custom string with whitespace and an ambiguous
\* character, and a custom string that overlaps the digits and the letters.
SpecialsInputs ==
    { DEFAULT_SPECIALS, <<>>, <<" ", "\t">>, <<"0", " ", "#">>, <<"7", "a">> }

ErrLength == "Length must be positive."
ErrSpecials == "Specials set is empty after removing whitespace."
ErrNoSet == "Select at least one character set."
ErrShort == "Length must be at least len(pools) to include one of each selected set."

-----------------------------------------------------------------------------
\* Helpers.
Range(s) == { s[n] : n \in DOMAIN s }

isspace(ch) == ch \in Whitespace

\* "".join(ch for ch in s if ch not in AMBIGUOUS)
FilterAmbiguous(s) == SelectSeq(s, LAMBDA ch : ch \notin AMBIGUOUS)

\* "".join(ch for ch in s if not ch.isspace())
StripWhitespace(s) == SelectSeq(s, LAMBDA ch : ~ isspace(ch))

\* secrets.randbelow(n): the possible outcomes
randbelow(n) == 0 .. (n - 1)

\* secrets.choice(seq), given the index the random source returned
choice(seq, r) == seq[r + 1]

-----------------------------------------------------------------------------
\* build_pools, as a function of its arguments: the error raised ("" when
\* none) and the pair (pools, combined).
build_digits(ud, ea) ==
    IF ud THEN (IF ea THEN FilterAmbiguous(string_digits) ELSE string_digits)
    ELSE <<>>

\* build_pools adding the letters to combined whatever use_letters is
build_letters_Always(ul, ea) ==
    IF ea THEN FilterAmbiguous(string_ascii_letters) ELSE string_ascii_letters

build_letters(ul, ea) ==
    IF ul THEN (IF ea THEN FilterAmbiguous(string_ascii_letters)
                ELSE string_ascii_letters)
    ELSE <<>>

build_specials(us, sp) == IF us THEN StripWhitespace(sp) ELSE <<>>

\* build_pools without the check of the stripped symbol string
build_pools_NoEmptyCheck(ud, ul, us, sp, ea) ==
    LET digits == build_digits(ud, ea)
        letters == build_letters(ul, ea)
        spec == build_specials(us, sp)
        ps == (IF ud THEN <<digits>> ELSE <<>>)
              \o (IF ul THEN <<letters>> ELSE <<>>)
              \o (IF us THEN <<spec>> ELSE <<>>)
        comb == digits \o letters \o spec
    IN  IF comb = <<>>
        THEN [err |-> ErrNoSet, pools |-> <<>>, combined |-> <<>>]
        ELSE [err |-> "", pools |-> ps, combined |-> comb]

build_pools(ud, ul, us, sp, ea) ==
    LET digits == build_digits(ud, ea)
        letters == build_letters(ul, ea)
        spec == build_specials(us, sp)
        ps == (IF ud THEN <<digits>> ELSE <<>>)
              \o (IF ul THEN <<letters>> ELSE <<>>)
              \o (IF us THEN <<spec>> ELSE <<>>)
        comb == digits \o letters \o spec
    IN  IF us /\ spec = <<>>
        THEN [err |-> ErrSpecials, pools |-> <<>>, combined |-> <<>>]
        ELSE IF comb = <<>>
        THEN [err |-> ErrNoSet, pools |-> <<>>, combined |-> <<>>]
        ELSE [err |-> "", pools |-> ps, combined |-> comb]

\* the guards of generate_password
\* (variant: if length < 0)
LengthNotPositive_Strict(len) == len < 0

LengthNotPositive(len) == len <= 0

\* (variant: if length < len(pools) - 1)
TooShort_OffByOne(len, ps) == len < Len(ps) - 1

TooShort(len, ps) == len < Len(ps)

\* the sequence secrets.choice draws the k-th required character from
\* (variant: secrets.choice(combined) for pool in pools)
RequiredSource_Combined(ps, comb, k) == comb

RequiredSource(ps, comb, k) == ps[k]

\* length - len(pwd_chars), the size of the range of the fill comprehension
\* (variant: range(length - len(pwd_chars) + 1))
FillCount_OneMore(len, chars) == len - Len(chars) + 1

FillCount(len, chars) == len - Len(chars)

-----------------------------------------------------------------------------
\* secure_shuffle
\* (variant: items[i] = items[j], the other half of the exchange lost)
Swap_Overwrite(items, a, b) ==
    [n \in DOMAIN items |-> IF n = a + 1 THEN items[b + 1] ELSE items[n]]

\* items[i], items[j] = items[j], items[i]   (0-based i, j)
Swap(items, a, b) ==
    [n \in DOMAIN items |->
        IF n = a + 1 THEN items[b + 1]
        ELSE IF n = b + 1 THEN items[a + 1]
        ELSE items[n]]

\* (variant: j = secrets.randbelow(i))
SwapIndexChoices_Below(a) == randbelow(a)

\* the outcomes of j = secrets.randbelow(i + 1)
SwapIndexChoices(a) == randbelow(a + 1)

\* the loop of secure_shuffle from i = a on, given the indices still to draw
RECURSIVE shuffle_from(_, _, _)
shuffle_from(items, a, jseq) ==
    IF a < 1 THEN items
    ELSE shuffle_from(Swap(items, a, Head(jseq)), a - 1, Tail(jseq))

\* secure_shuffle(items), given the sequence of indices the source returns
secure_shuffle(items, jseq) == shuffle_from(items, Len(items) - 1, jseq)

\* the sequences of indices the loop can draw from i = a on
RECURSIVE ShuffleDrawsFrom(_)
ShuffleDrawsFrom(a) ==
    IF a < 1 THEN { <<>> }
    ELSE { <<j>> \o rest : j \in SwapIndexChoices(a),
                           rest \in ShuffleDrawsFrom(a - 1) }

ShuffleDraws(n) == ShuffleDrawsFrom(n - 1)

-----------------------------------------------------------------------------
\* generate_password after its checks, as a function of the random draws:
\* rd the indices of the required draws, fd those of the fill draws, jseq
\* those of the shuffle.
password(len, ps, comb, rd, fd, jseq) ==
    LET req == [k \in 1 .. Len(ps) |->
                   choice(RequiredSource(ps, comb, k), rd[k])]
        fill == [k \in 1 .. Len(fd) |-> choice(comb, fd[k])]
    IN  secure_shuffle(req \o fill, jseq)

RequiredDraws(ps, comb) ==
    { rd \in [1 .. Len(ps) -> randbelow(Len(comb))] :
        \A k \in 1 .. Len(ps) :
            rd[k] \in randbelow(Len(RequiredSource(ps, comb, k))) }

FillDraws(len, ps, comb) ==
    [1 .. FillCount(len, ps) -> randbelow(Len(comb))]

AllDraws(len, ps, comb) ==
    UNION { { <<rd, fd, jseq>> : rd \in RequiredDraws(ps, comb),
                                 jseq \in ShuffleDraws(Len(ps) + Len(fd)) } :
            fd \in FillDraws(len, ps, comb) }

\* every draw sequence paired with the password it produces
Outcomes(len, ps, comb) ==
    { <<password(len, ps, comb, d[1], d[2], d[3]), d>> :
        d \in AllDraws(len, ps, comb) }

-----------------------------------------------------------------------------
Init ==
    /\ pc = "start"
    /\ length \in (0 - MaxNeg) .. MaxLen
    /\ use_digits \in BOOLEAN
    /\ use_letters \in BOOLEAN
    /\ use_special \in BOOLEAN
    /\ specials \in SpecialsInputs
    /\ exclude_ambiguous \in BOOLEAN
    /\ pools = <<>>
    /\ combined = <<>>
    /\ pwd_chars = <<>>
    /\ todo = 0
    /\ i = 0
    /\ err = ""
    /\ result = <<>>
    /\ nDraws = 0
    /\ js = <<>>
    /\ perm = <<>>

\* if length <= 0: raise ValueError
CheckLength ==
    /\ pc = "start"
    /\ IF LengthNotPositive(length)
       THEN pc' = "raised" /\ err' = ErrLength
       ELSE pc' = "build" /\ err' = err
    /\ UNCHANGED <<cfgvars, pools, combined, pwd_chars, todo, i, result,
                   nDraws, js, perm>>

\* pools, combined = build_pools(...)
BuildPools ==
    /\ pc = "build"
    /\ LET r == build_pools(use_digits, use_letters, use_special, specials,
                            exclude_ambiguous)
       IN  IF r.err # ""
           THEN pc' = "raised" /\ err' = r.err /\ UNCHANGED <<pools, combined>>
           ELSE /\ pc' = "check"
                /\ pools' = r.pools
                /\ combined' = r.combined
                /\ err' = err
    /\ UNCHANGED <<cfgvars, pwd_chars, todo, i, result, nDraws, js, perm>>

\* if length < len(pools): raise ValueError
CheckShort ==
    /\ pc = "check"
    /\ IF TooShort(length, pools)
       THEN pc' = "raised" /\ err' = ErrShort
       ELSE pc' = "required" /\ err' = err
    /\ UNCHANGED <<cfgvars, pools, combined, pwd_chars, todo, i, result,
                   nDraws, js, perm>>

\* one iteration of [secrets.choice(pool) for pool in pools]
RequiredDraw ==
    /\ pc = "required"
    /\ Len(pwd_chars) < Len(pools)
    /\ LET pool == RequiredSource(pools, combined, Len(pwd_chars) + 1)
       IN  \E r \in randbelow(Len(pool)) :
               pwd_chars' = Append(pwd_chars, choice(pool, r))
    /\ nDraws' = nDraws + 1
    /\ UNCHANGED <<pc, cfgvars, pools, combined, todo, i, err, result, js, perm>>

\* the end of the first comprehension; range(length - len(pwd_chars)) is built
RequiredDone ==
    /\ pc = "required"
    /\ Len(pwd_chars) >= Len(pools)
    /\ pc' = "fill"
    /\ todo' = FillCount(length, pwd_chars)
    /\ UNCHANGED <<cfgvars, pools, combined, pwd_chars, i, err, result,
                   nDraws, js, perm>>

\* one iteration of [secrets.choice(combined) for _ in range(...)]
FillDraw ==
    /\ pc = "fill"
    /\ todo > 0
    /\ \E r \in randbelow(Len(combined)) :
           pwd_chars' = Append(pwd_chars, choice(combined, r))
    /\ todo' = todo - 1
    /\ nDraws' = nDraws + 1
    /\ UNCHANGED <<pc, cfgvars, pools, combined, i, err, result, js, perm>>

\* the end of the second comprehension and the call secure_shuffle(pwd_chars):
\* range(len(items) - 1, 0, -1) starts at len(items) - 1
FillDone ==
    /\ pc = "fill"
    /\ todo <= 0
    /\ pc' = "shuffle"
    /\ i' = Len(pwd_chars) - 1
    /\ js' = <<>>
    /\ perm' = [n \in 1 .. Len(pwd_chars) |-> n]
    /\ UNCHANGED <<cfgvars, pools, combined, pwd_chars, todo, err, result,
                   nDraws>>

\* one iteration of the loop of secure_shuffle
ShuffleStep ==
    /\ pc = "shuffle"
    /\ i >= 1
    /\ \E j \in SwapIndexChoices(i) :
           /\ pwd_chars' = Swap(pwd_chars, i, j)
           /\ perm' = Swap(perm, i, j)
           /\ js' = Append(js, j)
    /\ i' = i - 1
    /\ nDraws' = nDraws + 1
    /\ UNCHANGED <<pc, cfgvars, pools, combined, todo, err, result>>

\* the end of secure_shuffle and return "".join(pwd_chars)
Return ==
    /\ pc = "shuffle"
    /\ i < 1
    /\ pc' = "done"
    /\ result' = pwd_chars
    /\ UNCHANGED <<cfgvars, pools, combined, pwd_chars, todo, i, err, nDraws,
                   js, perm>>

Next ==
    \/ CheckLength
    \/ BuildPools
    \/ CheckShort
    \/ RequiredDraw
    \/ RequiredDone
    \/ FillDraw
    \/ FillDone
    \/ ShuffleStep
    \/ Return

Spec == Init /\ [][Next]_vars

-----------------------------------------------------------------------------
\* Vocabulary of the properties, stated on the arguments of the call.
DigitChars ==
    IF exclude_ambiguous THEN Range(string_digits) \ AMBIGUOUS
    ELSE Range(string_digits)

LetterChars ==
    IF exclude_ambiguous THEN Range(string_ascii_letters) \ AMBIGUOUS
    ELSE Range(string_ascii_letters)

SymbolChars == Range(specials) \ Whitespace

NumEnabled ==
    (IF use_digits THEN 1 ELSE 0) + (IF use_letters THEN 1 ELSE 0)
        + (IF use_special THEN 1 ELSE 0)

PoolsBuild == NumEnabled >= 1 /\ (use_special => SymbolChars # {})

ValidConfig == length >= 1 /\ PoolsBuild /\ length >= NumEnabled

EnabledChars ==
    (IF use_digits THEN DigitChars ELSE {})
        \cup (IF use_letters THEN LetterChars ELSE {})
        \cup (IF use_special THEN SymbolChars ELSE {})

DisabledChars ==
    (IF use_digits THEN {} ELSE Range(string_digits))
        \cup (IF use_letters THEN {} ELSE Range(string_ascii_letters))

Drawing == pc \in {"required", "fill", "shuffle"}

Occurrences(s, ch) == Cardinality({ n \in DOMAIN s : s[n] = ch })

RECURSIVE Factorial(_)
Factorial(n) == IF n <= 1 THEN 1 ELSE n * Factorial(n - 1)

Identity(n) == [m \in 1 .. n |-> m]

\* s with the characters at positions a and a + 1 exchanged
Transposed(s, a) ==
    [n \in DOMAIN s |-> IF n = a THEN s[a + 1] ELSE IF n = a + 1 THEN s[a]
                        ELSE s[n]]

\* the strings of the requested length over the combined pool that contain a
\* character of every active pool
ValidStrings ==
    { s \in [1 .. length -> Range(combined)] :
        \A k \in 1 .. Len(pools) : Range(s) \cap Range(pools[k]) # {} }

\* the state in which the checks have passed and no draw has happened yet
BeforeDraws == pc = "required" /\ pwd_chars = <<>> /\ length <= DistMaxLen

-----------------------------------------------------------------------------
\* C1: for every valid configuration the call raises no error, and the string
\* it returns has exactly `length` characters, whatever the draws were.
LengthExact ==
    /\ ValidConfig => pc # "raised"
    /\ pc = "done" => Len(result) = length

LengthExactWitness ==
    pc = "done" /\ length = MaxLen /\ NumEnabled = 3 /\ Len(result) = MaxLen

\* C2: the returned string contains a character of the filtered pool of each
\* enabled class, also when length equals the number of enabled classes and
\* when the custom symbols overlap another pool.
Coverage ==
    pc = "done" =>
        /\ use_digits => Range(result) \cap DigitChars # {}
        /\ use_letters => Range(result) \cap LetterChars # {}
        /\ use_special => Range(result) \cap SymbolChars # {}

CoverageWitness ==
    /\ pc = "done"
    /\ NumEnabled = 3
    /\ length = 3
    /\ SymbolChars \cap (DigitChars \cup LetterChars) # {}

\* C3: with exclude_ambiguous set, the returned password contains none of the
\* ambiguous characters, for any custom symbol string.
NoAmbiguous ==
    (pc = "done" /\ exclude_ambiguous) => Range(result) \cap AMBIGUOUS = {}

\* C4 as stated: every character of the returned password is in the combined
\* pool and is never a character of a disabled class.
OnlyEnabledClasses ==
    pc = "done" =>
        \A ch \in Range(result) :
            ch \in Range(combined) /\ ch \notin DisabledChars

\* C4: every character of the returned password is in the combined pool, that
\* is in the filtered pool of some enabled class; it is a character of a
\* disabled class only when symbols are enabled and the symbol string itself
\* holds it.  With only digits enabled the result is made of filtered digits.
OnlyCombinedPool ==
    pc = "done" =>
        /\ Len(result) = length
        /\ \A ch \in Range(result) :
               /\ ch \in Range(combined)
               /\ ch \in EnabledChars
               /\ ch \in DisabledChars => (use_special /\ ch \in SymbolChars)

OnlyCombinedPoolWitness ==
    /\ pc = "done"
    /\ use_digits /\ ~ use_letters /\ ~ use_special
    /\ length = 4
    /\ Len(result) = 4
    /\ Range(result) \subseteq DigitChars

\* C5 as stated: every valid string (requested length, over the combined pool,
\* a character of every active pool) is produced by the same number of draw
\* sequences.
UniformOverValid ==
    BeforeDraws =>
        LET T == Outcomes(length, pools, combined)
            Count(s) == Cardinality({ p \in T : p[1] = s })
        IN  \A s, t \in ValidStrings : Count(s) = Count(t)

\* C5: every string produced is valid, and two strings that are rearrangements
\* of one another are produced by the same number of draw sequences (strings
\* with different character counts may differ, and a valid string may not be
\* produced at all).
UniformUnderRearrangement ==
    BeforeDraws =>
        LET T == Outcomes(length, pools, combined)
            Outs == { p[1] : p \in T }
            Count(s) == Cardinality({ p \in T : p[1] = s })
        IN  /\ Outs \subseteq ValidStrings
            /\ \A s \in Outs : \A a \in 1 .. (length - 1) :
                   /\ Transposed(s, a) \in Outs
                   /\ Count(Transposed(s, a)) = Count(s)

UniformUnderRearrangementWitness ==
    /\ BeforeDraws
    /\ length = 3
    /\ Len(pools) = 2
    /\ Cardinality(Range(combined)) >= 3

\* C7 as stated: with no class enabled the call fails with the "no class
\* selected" error for every length, zero and negative ones included.
NoClassAnyLength ==
    NumEnabled = 0 =>
        /\ ~ Drawing /\ pc # "done"
        /\ pc = "raised" => err = ErrNoSet

\* C7: with no class enabled the call fails with the "no class selected" error
\* for every length >= 1; for a length <= 0 it fails with the "length must be
\* positive" error.
NoClassPositiveLength ==
    NumEnabled = 0 =>
        /\ ~ Drawing /\ pc # "done"
        /\ pc = "raised" => err = (IF length >= 1 THEN ErrNoSet ELSE ErrLength)

NoClassPositiveLengthWitness ==
    NumEnabled = 0 /\ pc = "raised" /\ err = ErrNoSet /\ length = MaxLen

\* C8: when the pools build and 1 <= length < number of active pools the call
\* fails with the "length too short" error and returns nothing; with length
\* equal to the number of active pools it raises no error.
TooShortFails ==
    /\ (PoolsBuild /\ 1 <= length /\ length < NumEnabled) =>
           /\ ~ Drawing /\ pc # "done" /\ result = <<>>
           /\ pc = "raised" => err = ErrShort
    /\ (PoolsBuild /\ 1 <= length /\ length = NumEnabled) => pc # "raised"

TooShortFailsWitness ==
    pc = "raised" /\ err = ErrShort /\ length = 2 /\ NumEnabled = 3

\* C9: an error is raised only before the first consultation of the random
\* source and with no character produced, every invalid configuration ends
\* that way, and once a draw has happened the call raises nothing and can
\* always take its next step until it returns a password.
FailFast ==
    /\ pc = "raised" =>
           err # "" /\ nDraws = 0 /\ pwd_chars = <<>> /\ result = <<>>
    /\ ~ ValidConfig => (nDraws = 0 /\ ~ Drawing /\ pc # "done")
    /\ nDraws > 0 =>
           /\ err = ""
           /\ pc # "done" => ENABLED Next
           /\ pc = "done" => Len(result) >= 1

FailFastWitness ==
    pc = "done" /\ nDraws = 2 * MaxLen - 1 /\ err = ""

\* C10: secure_shuffle rearranges the same items; the n! sequences of swap
\* indices give n! different orderings of the positions, so every ordering
\* comes from exactly one sequence.
ShufflePermutes ==
    /\ pc \in {"shuffle", "done"} =>
           /\ Len(perm) = Len(pwd_chars)
           /\ Range(perm) = 1 .. Len(pwd_chars)
    /\ pc = "done" =>
           /\ js \in ShuffleDraws(Len(perm))
           /\ perm = secure_shuffle(Identity(Len(perm)), js)
    /\ (pc = "shuffle" /\ js = <<>>) =>
           LET n == Len(pwd_chars)
               D == ShuffleDraws(n)
               image == { secure_shuffle(Identity(n), q) : q \in D }
           IN  /\ Cardinality(D) = Factorial(n)
               /\ Cardinality(image) = Factorial(n)
               /\ \A p \in image : Range(p) = 1 .. n

ShuffleKeepsItems ==
    pc = "shuffle" =>
        \A ch \in Range(pwd_chars) \cup Range(pwd_chars') :
            Occurrences(pwd_chars', ch) = Occurrences(pwd_chars, ch)

ShuffleUnbiased == [] ShufflePermutes /\ [][ShuffleKeepsItems]_vars

ShuffleUnbiasedWitness ==
    /\ pc = "done"
    /\ Len(perm) = MaxLen
    /\ perm # Identity(MaxLen)
    /\ Cardinality(Range(result)) >= 3

====
